---- MODULE Spec2Model ----
(***************************************************************************)
(* A model of cat_facts_tree.py: the text normalizer, the bag-of-words     *)
(* classifier determine_facts_hierarchy over a topic model, and the clean  *)
(* write of a tree of facts into the records table.                        *)
(*                                                                         *)
(* A Python str is modelled as a sequence of characters; a character is a  *)
(* one-character string; a non-ASCII character, and the grave accent, is   *)
(* named by its code point ("U+2019", "U+0060").  A dict is a record       *)
(* holding exactly the keys the dict has, and a dict whose order matters   *)
(* is a sequence of entries in insertion order (the order CPython >= 3.6   *)
(* enumerates it in).                                                      *)
(***************************************************************************)
EXTENDS Integers, Sequences, FiniteSets, TLC

VARIABLES
    text,              \* normalizer harness: the raw string under test
    normalized,        \* normalizer harness: <<normalize_text(text), normalize_text of that>>
    tokens,            \* normalizer harness: the tokens determine_facts_hierarchy scans for text
    npc,               \* normalizer harness: position
    cat_topics_model,  \* determine_facts_hierarchy: the topic model argument
    facts,             \* determine_facts_hierarchy: the facts argument (the batch)
    idx,               \* determine_facts_hierarchy: number of facts the outer loop has finished
    tree_dicts,        \* determine_facts_hierarchy: the dict of trees, in insertion order
    pc,                \* position of the classify-then-save run
    table,             \* the records table as committed ("absent": no such table)
    conn,              \* the table as the open connection sees it (uncommitted work included)
    api_call,          \* Records.create: the last call (its values, the rows before it, its end)
    api_calls,         \* Records.create and clean writes made against the API's table
    max_size,          \* make_cat_facts_tree: the number of fetch jobs queued (MAX_SIZE)
    thread_count,      \* make_cat_facts_tree: the number of worker threads (REQ_THREAD_COUNT)
    queue,             \* facts_queue: the tasks not yet taken
    unfinished_tasks,  \* facts_queue: the counter put() raises and task_done() lowers
    results,           \* the list the workers share
    workers,           \* each worker thread: its position in fetch_from_queue and its job
    job_log,           \* the jobs marked done: the response, whether it failed, what it appended
    mpc,               \* position of the thread that runs make_cat_facts_tree
    classify_calls     \* how often make_cat_facts_tree has called determine_facts_hierarchy

apiVars == <<api_call, api_calls>>

fetchVars == <<max_size, thread_count, queue, unfinished_tasks, results, workers, job_log, mpc,
               classify_calls>>

vars == <<text, normalized, tokens, npc, cat_topics_model, facts, idx, tree_dicts, pc, table, conn,
          apiVars, fetchVars>>

normVars == <<text, normalized, tokens, npc>>

treeVars == <<cat_topics_model, facts, idx, tree_dicts, pc, table, conn>>

-----------------------------------------------------------------------------
(* Characters *)

\* string.punctuation, the 32 characters str.maketrans maps to None
Punctuation ==
    {"!", "\"", "#", "$", "%", "&", "'", "(", ")", "*", "+", ",", "-", ".", "/", ":",
     ";", "<", "=", ">", "?", "@", "[", "\\", "]", "^", "_", "U+0060", "{", "|", "}", "~"}

\* the characters str.strip() with no argument removes from both ends
Whitespace == {" ", "\t", "\n", "\r", "\f"}

UpperCase ==
    <<"A","B","C","D","E","F","G","H","I","J","K","L","M",
      "N","O","P","Q","R","S","T","U","V","W","X","Y","Z">>

LowerCase ==
    <<"a","b","c","d","e","f","g","h","i","j","k","l","m",
      "n","o","p","q","r","s","t","u","v","w","x","y","z">>

\* str.lower() on one character
LowerChar(c) ==
    IF \E i \in 1..Len(UpperCase) : UpperCase[i] = c
    THEN LowerCase[CHOOSE i \in 1..Len(UpperCase) : UpperCase[i] = c]
    ELSE c

\* the curly quotes normalize_text names
RightSingleQuote == "U+2019"

LeftDoubleQuote == "U+201C"

-----------------------------------------------------------------------------
(* str methods *)

\* text.translate(table), table mapping every character of string.punctuation to None
Translate(s) == SelectSeq(s, LAMBDA c : c \notin Punctuation)

\* s.lower()
Lower(s) == [i \in 1..Len(s) |-> LowerChar(s[i])]

RECURSIVE LStrip(_)
LStrip(s) ==
    IF s # <<>> /\ Head(s) \in Whitespace THEN LStrip(Tail(s)) ELSE s

RECURSIVE RStrip(_)
RStrip(s) ==
    IF s # <<>> /\ s[Len(s)] \in Whitespace THEN RStrip(SubSeq(s, 1, Len(s) - 1)) ELSE s

\* s.strip()
Strip(s) == RStrip(LStrip(s))

\* s.replace(c, "") for a one-character c
Remove(s, c) == SelectSeq(s, LAMBDA x : x # c)

\* s.replace(c, d) for one-character c and d
Replace(s, c, d) == [i \in 1..Len(s) |-> IF s[i] = c THEN d ELSE s[i]]

RECURSIVE Split(_, _)
\* s.split(sep) for a one-character sep: empty pieces are kept
Split(s, sep) ==
    IF \E i \in 1..Len(s) : s[i] = sep
    THEN LET i == CHOOSE k \in 1..Len(s) : s[k] = sep /\ \A j \in 1..(k - 1) : s[j] # sep
         IN  <<SubSeq(s, 1, i - 1)>> \o Split(SubSeq(s, i + 1, Len(s)), sep)
    ELSE <<s>>

-----------------------------------------------------------------------------
(* Cat_Facts_Tree.normalize_text *)

\* the order of the replace calls that follow lower().strip()
StripThenRemove(s) ==
    Remove(Remove(Remove(Remove(Remove(Remove(Strip(s),
        RightSingleQuote), "'"), "\""), ")"), "("), LeftDoubleQuote)

normalize_text(s) == StripThenRemove(Lower(Translate(s)))

\* determine_facts_hierarchy, lines 230-231: the tokens scanned for a fact
Tokenize(fact) == Split(Replace(normalize_text(fact), "-", " "), " ")

-----------------------------------------------------------------------------
(* Python values *)

\* None
None == [none |-> TRUE]

\* {}
EmptyDict == [k \in {} |-> None]

\* the elements of a list
Range(s) == {s[i] : i \in 1..Len(s)}

\* A list whose order is not defined (the result of list(set(...))) is kept as the set of
\* its elements; a parents list is always held this way.
ListOf(elements) == [list |-> elements]

\* An insertion-ordered dict is a sequence of <<key, type of the value, value>> entries.
DictKeys(d) == {d[i].key : i \in 1..Len(d)}

DictIndex(d, k) == CHOOSE i \in 1..Len(d) : d[i].key = k

DictGet(d, k) == d[DictIndex(d, k)]

\* d[k] = v: an existing key keeps its place, a new key goes last
DictSet(d, k, type, v) ==
    LET e == [key |-> k, type |-> type, node |-> v]
    IN  IF k \in DictKeys(d) THEN [d EXCEPT ![DictIndex(d, k)] = e] ELSE Append(d, e)

-----------------------------------------------------------------------------
(* Cat_Facts_Tree.determine_facts_hierarchy: the scan of one fact *)

large_int == 100000000

RootSuffix == <<"_","r","o","o","t">>

\* The locals of one iteration of "for fact in facts" that outlive the token loop;
\* raised: an exception left the loop.
ScanStart == [found |-> FALSE, topic |-> <<>>, fact_results |-> EmptyDict, raised |-> FALSE]

\* lines 247-255: the token is the topic's own name
AnchorMatch(st, t, fact) ==
    IF "weight" \notin DOMAIN t.vals
    THEN [st EXCEPT !.found = TRUE, !.topic = t.name, !.raised = TRUE]  \* KeyError: vals['weight']
    ELSE [st EXCEPT !.found = TRUE,
                    !.topic = t.name,
                    !.fact_results = [topic   |-> t.name,
                                      depth   |-> t.vals.weight,
                                      parents |-> ListOf({t.name \o RootSuffix}),
                                      fact    |-> fact]]

\* lines 272-296: the parents a keyword hit stores: list(set(vals['parents'])), or [root]
KeywordParents(t) ==
    IF "parents" \in DOMAIN t.vals THEN ListOf(Range(t.vals.parents)) ELSE ListOf({t.name})

KeywordDepth(t) ==
    IF t.vals.weight = large_int THEN 0 ELSE t.vals.weight

\* lines 260-296: "for match_word in vals['matches']" with greatest_weight = large_int on
\* entry.  The first match_word equal to the token passes the weight test and sets
\* greatest_weight to the topic's weight; a repeated match_word then fails it.
KeywordMatch(st, t, token, fact) ==
    IF \E i \in 1..Len(t.vals.matches) : t.vals.matches[i] = token
    THEN IF "weight" \notin DOMAIN t.vals
         THEN [st EXCEPT !.raised = TRUE]                               \* KeyError: vals['weight']
         ELSE IF t.vals.weight < large_int
              THEN [st EXCEPT !.found = TRUE,
                              !.topic = t.name,
                              !.fact_results = [topic   |-> t.name,
                                                depth   |-> KeywordDepth(t),
                                                parents |-> KeywordParents(t),
                                                fact    |-> fact]]
              ELSE st
    ELSE st

\* lines 241-296: the body of "for _topic, vals in cat_topics_model.items()"
ScanTopic(st, t, token, fact) ==
    IF st.raised THEN st
    ELSE IF t.name = token THEN AnchorMatch(st, t, fact)
    ELSE IF "matches" \in DOMAIN t.vals THEN KeywordMatch(st, t, token, fact)
    ELSE st

RECURSIVE ScanTopics(_, _, _, _, _)
\* lines 241-296: the topics from the k-th on, in the dict's order
ScanTopics(st, model, k, token, fact) ==
    IF k > Len(model) THEN st
    ELSE ScanTopics(ScanTopic(st, model[k], token, fact), model, k + 1, token, fact)

\* Variant of ScansToken: the scan goes on after a match, so later tokens replace it
ScansEveryToken(st) == TRUE

\* line 240: whether this token is scanned against the topics
ScansToken(st) == ~st.found

RECURSIVE ScanTokens(_, _, _, _, _)
\* lines 239-296: "for token in tokens", from the j-th token on
ScanTokens(st, toks, j, model, fact) ==
    IF j > Len(toks) \/ st.raised THEN st
    ELSE ScanTokens(IF ScansToken(st) THEN ScanTopics(st, model, 1, toks[j], fact) ELSE st,
                    toks, j + 1, model, fact)

\* Variant of ScanFact: the catch-all of the commented-out lines 301-307, a fact that
\* matched nothing being filed under misc
ScanFactMisc(fact, model) ==
    LET st == ScanTokens(ScanStart, Tokenize(fact), 1, model, fact)
    IN  IF st.found \/ st.raised THEN st
        ELSE [st EXCEPT !.found = TRUE,
                        !.topic = <<"m","i","s","c">>,
                        !.fact_results = [topic   |-> <<"m","i","s","c">>,
                                          depth   |-> 0,
                                          parents |-> ListOf({}),
                                          fact    |-> fact]]

\* lines 230-296: the locals after the token loop of one fact
ScanFact(fact, model) == ScanTokens(ScanStart, Tokenize(fact), 1, model, fact)

-----------------------------------------------------------------------------
(* Cat_Facts_Tree.determine_facts_hierarchy: filing a scanned fact *)

\* lines 324-325
RootNode(fact_results) ==
    [topic |-> fact_results.topic, depth |-> 0, parents |-> None, fact |-> None]

\* Variant of NeedsRoot: a root for every first fact of a topic, whatever its depth
NeedsRootAnyDepth(fact_results) == fact_results.depth >= 1

\* line 319: "fact_results['depth'] is 1"; CPython keeps one object per small int, so the
\* identity test is the value test
NeedsRoot(fact_results) == fact_results.depth = 1

\* line 308: whether the fact is filed at all
Files(st) == st.found

\* lines 308-328.  A key that is already there holds a list: a root entry is keyed
\* topic + "_root", which is no topic's name in the topic models above.
FileFact(tree, st) ==
    IF ~Files(st) THEN tree
    ELSE IF st.topic \in DictKeys(tree)
         THEN LET e == DictGet(tree, st.topic)
              IN  DictSet(tree, st.topic, e.type, Append(e.node, st.fact_results))
         ELSE LET rooted == IF NeedsRoot(st.fact_results)
                            THEN DictSet(tree, st.topic \o RootSuffix, "dict",
                                         RootNode(st.fact_results))
                            ELSE tree
              IN  DictSet(rooted, st.topic, "list", <<st.fact_results>>)

-----------------------------------------------------------------------------
(* Cat_Facts_Tree_Records.save_to_db_clean *)

\* A string built by ", ".join is kept as the set of the names it joins (their order is
\* that of the parents list, which has none); the literal "none" is the join of itself.
Join(names) == [joined |-> names]

NoneLiteral == Join({<<"n","o","n","e">>})

\* str(None)
NoneStr == <<"N","o","n","e">>

\* lines 440-447: the value stored back into _each['parents']
ParentsColumn(node) ==
    IF "parents" \in DOMAIN node
    THEN IF node.parents = None THEN NoneLiteral ELSE Join(node.parents.list)
    ELSE NoneLiteral

\* lines 448-449 and 455-456: the row an INSERT adds.  ID and Depth travel as str(int) into
\* int columns, which hold the int again.
Row(index, node, parents) ==
    [ID      |-> index,
     Depth   |-> node.depth,
     Topic   |-> node.topic,
     Parents |-> parents,
     Fact    |-> IF node.fact = None THEN NoneStr ELSE node.fact]

\* The locals of the insert loop: the rows inserted so far, index, data as mutated in
\* place, and whether an exception left the loop.
SaveStart(data) == [rows |-> <<>>, index |-> 0, data |-> data, raised |-> FALSE]

RECURSIVE SaveFacts(_, _, _)
\* lines 439-451: "for _each in data[each]", from the j-th fact of the i-th entry on
SaveFacts(acc, i, j) ==
    IF j > Len(acc.data[i].node) THEN acc
    ELSE LET p == ParentsColumn(acc.data[i].node[j])
         IN  SaveFacts([acc EXCEPT !.rows = Append(@, Row(acc.index, acc.data[i].node[j], p)),
                                   !.index = @ + 1,
                                   !.data[i].node[j].parents = p],
                       i, j + 1)

\* line 438: len(node) > 1 and type(node) is list; a root node is a dict of four keys
IsFactList(e) ==
    (IF e.type = "list" THEN Len(e.node) ELSE Cardinality(DOMAIN e.node)) > 1
    /\ e.type = "list"

\* lines 452-458: the branch taken for a root node.  On a list, node['parents'] = "none"
\* is a TypeError.
SaveRoot(acc, i) ==
    IF acc.data[i].type = "list"
    THEN [acc EXCEPT !.raised = TRUE]
    ELSE [acc EXCEPT !.rows = Append(@, Row(acc.index, acc.data[i].node, NoneLiteral)),
                     !.index = @ + 1,
                     !.data[i].node.parents = NoneLiteral]

RECURSIVE SaveNodes(_, _)
\* lines 436-458: "for each in data.keys()", from the i-th key on
SaveNodes(acc, i) ==
    IF i > Len(acc.data) \/ acc.raised THEN acc
    ELSE SaveNodes(IF IsFactList(acc.data[i]) THEN SaveFacts(acc, i, 1) ELSE SaveRoot(acc, i),
                   i + 1)

\* lines 435-458
SaveLoop(data) == SaveNodes(SaveStart(data), 1)

\* lines 412-432: DROP TABLE (an error, when there is no table, is rolled back and passed
\* over) and CREATE TABLE leave the connection with an empty table
EmptyTable == [exists |-> TRUE, rows |-> <<>>]

NoTable == [exists |-> FALSE, rows |-> <<>>]

-----------------------------------------------------------------------------
(* The topic models handed to determine_facts_hierarchy *)

\* cat_matches (src/cat_facts_tree.py:67-68), one word per tuple of characters
cat_matches ==
  <<
    <<"a","n","i","m","a","l">>, <<"a","n","i","m","a","l","s">>, <<"p","e","t">>,
    <<"p","e","t","s">>, <<"f","e","l","i","n","e">>, <<"f","e","l","i","n","e","s">>,
    <<"c","a","t","s">>, <<"k","i","t","t","e","n">>, <<"k","i","t","t","e","n","s">>,
    <<"k","i","t","t","y">> >>

\* person_matches (src/cat_facts_tree.py:69-70), one word per tuple of characters
person_matches ==
  <<
    <<"p","e","o","p","l","e">>, <<"h","u","m","a","n">>, <<"h","u","m","a","n","s">>,
    <<"p","e","r","s","o","n","s">>, <<"c","a","r","e","t","a","k","e","r","s">>,
    <<"c","a","r","e","t","a","k","e","r">>, <<"o","w","n","e","r">>,
    <<"o","w","n","e","r","s">> >>

\* appearance_matches (src/cat_facts_tree.py:71-77), one word per tuple of characters
appearance_matches ==
  <<
    <<"c","u","t","e">>, <<"l","o","o","k">>, <<"c","o","l","o","r">>, <<"h","a","i","r">>,
    <<"a","d","o","r","a","b","l","e">>, <<"s","m","a","l","l">>, <<"b","i","g">>,
    <<"l","a","r","g","e">>, <<"s","i","z","e">>, <<"f","a","t">>, <<"s","k","i","n","n","y">>,
    <<"s","t","r","o","n","g">>, <<"r","o","b","u","s","t">>,
    <<"m","u","s","c","u","l","a","r">>, <<"m","u","s","c","l","e">>, <<"h","a","r","d">>,
    <<"s","o","f","t">>, <<"b","r","e","e","d">>, <<"t","y","p","e">>, <<"b","r","e","d">>,
    <<"g","r","o","w","n">>, <<"g","r","o","w">>, <<"h","e","a","d">>,
    <<"b","r","e","e","d","s">>, <<"l","a","r","g","e","s","t">>,
    <<"s","m","a","l","l","e","s","t">>, <<"l","a","r","g","e","r">>,
    <<"s","m","a","l","l","e","r">>, <<"b","i","g","g","e","s","t">>,
    <<"s","m","a","l","l","e","s","t">>, <<"b","i","g","g","e","r">>,
    <<"s","m","a","l","l","e","r">>, <<"s","o","f","t","e","s","t">>,
    <<"s","o","f","t","e","r">>, <<"h","a","r","i","e","s","t">>, <<"h","a","r","i","e","r">>,
    <<"f","l","u","f","f","i","e","s","t">>, <<"f","l","u","f","f","i","e","r">>,
    <<"h","a","r","d","e","s","t">>, <<"h","a","r","d","e","r">>, <<"p","a","w">>,
    <<"p","a","w","s">>, <<"f","e","e","t">>, <<"f","o","o","t">>, <<"a","r","m">>,
    <<"t","a","i","l">>, <<"t","a","i","l","s">>, <<"c","l","a","w">>, <<"c","l","a","w","s">>,
    <<"f","l","u","f","f">>, <<"f","u","r">>, <<"f","i","n","g","e","r","s">>,
    <<"f","i","n","g","e","r">>, <<"t","o","e","s">>, <<"t","o","e">>, <<"n","a","i","l","s">>,
    <<"n","a","i","l">> >>

\* personality_matches (src/cat_facts_tree.py:78-79), one word per tuple of characters
personality_matches ==
  <<
    <<"c","u","t","e">>, <<"l","o","o","k">>, <<"c","o","l","o","r">>,
    <<"a","d","o","r","a","b","l","e">>, <<"s","m","a","l","l">>, <<"b","i","g">>,
    <<"l","a","r","g","e">>, <<"s","i","z","e">>, <<"f","a","t">>, <<"s","k","i","n","n","y">>,
    <<"s","t","r","o","n","g">>, <<"r","o","b","u","s","t">>,
    <<"m","u","s","c","u","l","a","r">>, <<"m","u","s","c","l","e">>, <<"h","a","r","d">>,
    <<"s","o","f","t">> >>

\* intelligence_matches (src/cat_facts_tree.py:80-81), one word per tuple of characters
intelligence_matches ==
  <<
    <<"c","u","t","e">>, <<"l","o","o","k">>, <<"c","o","l","o","r">>,
    <<"a","d","o","r","a","b","l","e">>, <<"s","m","a","l","l">>, <<"b","i","g">>,
    <<"l","a","r","g","e">>, <<"s","i","z","e">>, <<"f","a","t">>, <<"s","k","i","n","n","y">>,
    <<"s","t","r","o","n","g">>, <<"r","o","b","u","s","t">>,
    <<"m","u","s","c","u","l","a","r">>, <<"m","u","s","c","l","e">>, <<"h","a","r","d">>,
    <<"s","o","f","t">> >>

\* health_matches (src/cat_facts_tree.py:82-84), one word per tuple of characters
health_matches ==
  <<
    <<"c","u","t","e">>, <<"l","o","o","k">>, <<"c","o","l","o","r">>, <<"h","a","i","r">>,
    <<"a","d","o","r","a","b","l","e">>, <<"s","m","a","l","l">>, <<"b","i","g">>,
    <<"l","a","r","g","e">>, <<"s","i","z","e">>, <<"f","a","t">>, <<"s","k","i","n","n","y">>,
    <<"s","t","r","o","n","g">>, <<"r","o","b","u","s","t">>,
    <<"m","u","s","c","u","l","a","r">>, <<"m","u","s","c","l","e">>, <<"h","a","r","d">>,
    <<"s","o","f","t">>, <<"l","i","f","e">>, <<"l","i","v","e">>,
    <<"e","x","p","e","c","t","a","n","c","y">>, <<"n","o","r","m","a","l">> >>

\* activities_matches (src/cat_facts_tree.py:85-91), one word per tuple of characters
activities_matches ==
  <<
    <<"r","u","n">>, <<"r","u","n","n","i","n","g">>, <<"p","l","a","y">>,
    <<"p","l","a","y","i","n","g">>, <<"w","a","l","k">>, <<"w","a","l","k","i","n","g">>,
    <<"s","t","a","l","k">>, <<"s","t","a","l","k","i","n","g">>, <<"r","a","n">>,
    <<"p","l","a","y","e","d">>, <<"w","a","l","k","e","d">>, <<"s","t","a","l","k","e","d">>,
    <<"t","a","l","k","i","n","g">>, <<"t","a","l","k","e","d">>, <<"t","a","l","k","s">>,
    <<"r","u","n","s">>, <<"p","l","a","y","s">>, <<"w","a","l","k","s">>,
    <<"s","t","a","l","k","s">>, <<"h","u","n","t","s">>, <<"h","u","n","t","e","d">>,
    <<"h","u","n","t","i","n","g">>, <<"h","u","n","t">>, <<"c","a","t","c","h">>,
    <<"c","a","u","g","h","t">>, <<"c","a","t","c","h","i","n","g">>,
    <<"c","a","t","c","h","e","s">>, <<"b","i","t","e","s">>, <<"b","i","t">>,
    <<"b","i","t","e">>, <<"p","r","e","y">>, <<"p","r","e","y","e","d">>,
    <<"p","r","e","y","i","n","g">>, <<"p","r","e","y","s">>, <<"m","e","o","w","s">>,
    <<"m","e","o","w","i","n","g">>, <<"m","e","o","w","e","d">>, <<"m","e","o","w">>,
    <<"c","r","i","e","s">>, <<"c","r","y","i","n","g">>, <<"c","r","i","e","d">>,
    <<"c","r","y">>, <<"y","e","l","l">>, <<"y","e","l","l","s">>, <<"y","e","l","l","e","d">>,
    <<"y","e","l","l">>, <<"y","a","w","n">>, <<"y","a","w","n","s">>, <<"y","a","w","n">>,
    <<"y","a","w","n","i","n","g">>, <<"k","i","l","l">>, <<"k","i","l","l","s">>,
    <<"k","i","l","l","i","n","g">>, <<"k","i","l","l","e","d">>,
    <<"y","e","l","l","i","n","g">>, <<"y","a","w","n","i","n","g">> >>

\* positive_matches (src/cat_facts_tree.py:92-95), one word per tuple of characters
positive_matches ==
  <<
    <<"g","o","o","d">>, <<"g","r","e","a","t">>, <<"b","e","s","t">>,
    <<"f","a","n","t","a","s","t","i","c">>, <<"i","n","c","r","e","d","i","b","l","e">>,
    <<"w","o","n","d","e","r","f","u","l">>, <<"a","m","a","z","i","n","g">>,
    <<"p","o","w","e","r","f","u","l">>, <<"s","m","a","r","t">>,
    <<"i","n","t","e","l","l","i","g","e","n","t">>, <<"b","e","t","t","e","r">>,
    <<"h","e","a","l","t","h","y">>, <<"b","e","a","u","t","i","f","u","l">>,
    <<"s","u","p","e","r">>, <<"s","u","p","e","r","b">>, <<"a","w","e","s","o","m","e">>,
    <<"l","o","v","e">>, <<"l","o","v","i","n","g">>, <<"f","a","s","t","e","s","t">>,
    <<"f","a","s","t">>, <<"f","a","s","t","e","r">> >>

\* negative_matches (src/cat_facts_tree.py:96-98), one word per tuple of characters
negative_matches ==
  <<
    <<"b","a","d">>, <<"l","a","m","e">>, <<"w","o","r","s","t">>, <<"w","o","r","s","e">>,
    <<"s","t","u","p","i","d">>, <<"d","u","m","b">>, <<"p","o","i","n","t","l","e","s","s">>,
    <<"i","d","i","o","t","i","c">>, <<"m","o","r","o","n","i","c">>, <<"w","e","i","r","d">>,
    <<"o","d","d">>, <<"g","o","o","f","y">>, <<"t","e","r","r","i","b","l","e">>,
    <<"a","w","f","u","l">>, <<"u","n","h","e","a","l","t","h","y">>, <<"u","g","l","y">>,
    <<"u","n","h","e","a","l","t","h","y">>, <<"h","a","t","e">>,
    <<"h","a","t","e","f","u","l">>, <<"s","l","o","w","e","s","t">>,
    <<"s","l","o","w","e","r">>, <<"s","l","o","w">> >>

\* weighted_topic_vals (src/cat_facts_tree.py:100-181): the dict in insertion order, each
\* topic with the keys its literal has ("matches" and "parents" are optional)
weighted_topic_vals ==
  <<
    [name |-> <<"c","a","t">>,
     vals |-> [weight |-> 1,
               matches |-> cat_matches,
               parents |-> <<<<"c","a","t","_","r","o","o","t">>>>]],
    [name |-> <<"m","i","s","c">>,
     vals |-> [weight |-> 1]],
    [name |-> <<"p","e","r","s","o","n">>,
     vals |-> [weight |-> 1,
               matches |-> person_matches,
               parents |-> <<<<"p","e","r","s","o","n","_","r","o","o","t">>>>]],
    [name |-> <<"a","p","p","e","a","r","a","n","c","e">>,
     vals |-> [weight |-> 2,
               matches |-> appearance_matches,
               parents |-> <<<<"c","a","t","_","r","o","o","t">>, <<"c","a","t">>>>]],
    [name |-> <<"p","e","r","s","o","n","a","l","i","t","y">>,
     vals |-> [weight |-> 2,
               matches |-> personality_matches,
               parents |-> <<<<"c","a","t","_","r","o","o","t">>, <<"c","a","t">>>>]],
    [name |-> <<"i","n","t","e","l","l","i","g","e","n","c","e">>,
     vals |-> [weight |-> 2,
               matches |-> intelligence_matches,
               parents |-> <<<<"c","a","t","_","r","o","o","t">>, <<"c","a","t">>>>]],
    [name |-> <<"h","e","a","l","t","h">>,
     vals |-> [weight |-> 2,
               matches |-> health_matches,
               parents |-> <<<<"c","a","t","_","r","o","o","t">>, <<"c","a","t">>>>]],
    [name |-> <<"a","c","t","i","v","i","t","e","s">>,
     vals |-> [weight |-> 2,
               matches |-> activities_matches,
               parents |-> <<<<"c","a","t","_","r","o","o","t">>, <<"c","a","t">>>>]],
    [name |-> <<"p","o","s","i","t","i","v","e","_","h","e","a","l","t","h">>,
     vals |-> [weight |-> 3,
               matches |-> positive_matches,
               parents |-> <<<<"c","a","t","_","r","o","o","t">>, <<"c","a","t">>, <<"h","e","a","l","t","h">>>>]],
    [name |-> <<"n","e","g","a","t","i","v","e","_","h","e","a","l","t","h">>,
     vals |-> [weight |-> 3,
               matches |-> negative_matches,
               parents |-> <<<<"c","a","t","_","r","o","o","t">>, <<"c","a","t">>, <<"h","e","a","l","t","h">>>>]],
    [name |-> <<"p","o","s","i","t","i","v","e","_","i","n","t","e","l","l","i","g","e","n","c","e">>,
     vals |-> [weight |-> 3,
               matches |-> positive_matches,
               parents |-> <<<<"c","a","t","_","r","o","o","t">>, <<"c","a","t">>, <<"i","n","t","e","l","l","i","g","e","n","c","e">>>>]],
    [name |-> <<"n","e","g","a","t","i","v","e","_","i","n","t","e","l","l","i","g","e","n","c","e">>,
     vals |-> [weight |-> 3,
               matches |-> negative_matches,
               parents |-> <<<<"c","a","t","_","r","o","o","t">>, <<"c","a","t">>, <<"i","n","t","e","l","l","i","g","e","n","c","e">>>>]],
    [name |-> <<"p","o","s","i","t","i","v","e","_","p","e","r","s","o","n","a","l","i","t","y">>,
     vals |-> [weight |-> 3,
               matches |-> positive_matches,
               parents |-> <<<<"c","a","t","_","r","o","o","t">>, <<"c","a","t">>, <<"p","e","r","s","o","n","a","l","i","t","y">>>>]],
    [name |-> <<"n","e","g","a","t","i","v","e","_","p","e","r","s","o","n","a","l","i","t","y">>,
     vals |-> [weight |-> 3,
               matches |-> negative_matches,
               parents |-> <<<<"c","a","t","_","r","o","o","t">>, <<"c","a","t">>, <<"p","e","r","s","o","n","a","l","i","t","y">>>>]],
    [name |-> <<"p","o","s","i","t","i","v","e","_","a","c","t","i","v","i","t","i","e","s">>,
     vals |-> [weight |-> 3,
               matches |-> positive_matches,
               parents |-> <<<<"c","a","t","_","r","o","o","t">>, <<"c","a","t">>, <<"a","c","t","i","v","i","t","i","e","s">>>>]],
    [name |-> <<"n","e","g","a","t","i","v","e","_","a","c","t","i","v","i","t","i","e","s">>,
     vals |-> [weight |-> 3,
               matches |-> negative_matches,
               parents |-> <<<<"c","a","t","_","r","o","o","t">>, <<"c","a","t">>, <<"a","c","t","i","v","i","t","i","e","s">>>>]]
  >>
\* A second topic model: cat as above, a catch-all topic that registers no weight
\* ("If no weight is in the topic models, it'll be a root node"), and a topic without
\* parents.
catch_all_topic_vals ==
  <<
    weighted_topic_vals[1],
    [name |-> <<"m","i","s","c">>,
     vals |-> [matches |-> << <<"d","o","g","s">> >>]],
    [name |-> <<"h","u","n","t","e","r">>,
     vals |-> [weight |-> 2,
               matches |-> << <<"h","u","n","t","e","r","s">> >>]]
  >>

\* A third topic model: cat as above, and a topic registered with the weight that the
\* scan starts greatest_weight with (line 244), under which lines 280 and 292 store depth 0.
sentinel_topic_vals ==
  <<
    weighted_topic_vals[1],
    [name |-> <<"c","o","a","t">>,
     vals |-> [weight |-> large_int,
               matches |-> << <<"f","u","r">> >>,
               parents |-> << <<"c","a","t","_","r","o","o","t">>, <<"c","a","t">> >>]]
  >>

TopicModels == {weighted_topic_vals, catch_all_topic_vals, sentinel_topic_vals}

-----------------------------------------------------------------------------
(* The facts handed to determine_facts_hierarchy *)

\* "My cat's fur is the softest I've ever felt."
SoftestFurFact ==
    <<"M","y"," ","c","a","t","'","s"," ","f","u","r"," ","i","s"," ","t","h","e"," ","s",
      "o","f","t","e","s","t"," ","I","'","v","e"," ","e","v","e","r"," ","f","e","l","t",
      ".">>

\* "Cats are great hunters and very smart."
GreatHuntersFact ==
    <<"C","a","t","s"," ","a","r","e"," ","g","r","e","a","t"," ","h","u","n","t","e","r",
      "s"," ","a","n","d"," ","v","e","r","y"," ","s","m","a","r","t",".">>

\* "Dogs bark."
DogsBarkFact ==
    <<"D","o","g","s"," ","b","a","r","k",".">>

\* ""
EmptyFact ==
    <<>>

\* "Fur"
FurFact ==
    <<"F","u","r">>

\* "The cat sat."
CatSatFact ==
    <<"T","h","e"," ","c","a","t"," ","s","a","t",".">>

\* "Fur of a cat"
FurOfCatFact ==
    <<"F","u","r"," ","o","f"," ","a"," ","c","a","t">>

\* "A cat has fur."
CatHasFurFact ==
    <<"A"," ","c","a","t"," ","h","a","s"," ","f","u","r",".">>

\* "Big cats"
BigCatsFact ==
    <<"B","i","g"," ","c","a","t","s">>

\* "People love cats."
PeopleFact ==
    <<"P","e","o","p","l","e"," ","l","o","v","e"," ","c","a","t","s",".">>

\* "A good pet"
GoodPetFact ==
    <<"A"," ","g","o","o","d"," ","p","e","t">>

\* "misc"
MiscFact ==
    <<"m","i","s","c">>

\* "A fur-ball"
FurBallFact ==
    <<"A"," ","f","u","r","-","b","a","l","l">>

\* "Hunters"
HuntersFact ==
    <<"H","u","n","t","e","r","s">>

FactPool ==
    {SoftestFurFact, GreatHuntersFact, DogsBarkFact, EmptyFact, FurFact, CatSatFact,
     FurOfCatFact, CatHasFurFact, BigCatsFact, PeopleFact, GoodPetFact, MiscFact,
     FurBallFact, HuntersFact}
\* the longest batch of facts
MaxFacts == 2

Batches == UNION {[1..n -> FactPool] : n \in 0..MaxFacts}

\* a record an earlier run left in the table
OldRecord ==
    [ID |-> 0, Depth |-> 1, Topic |-> <<"o","l","d">>, Parents |-> NoneLiteral,
     Fact |-> <<"o","l","d">>]

OldTable == [exists |-> TRUE, rows |-> <<OldRecord>>]

\* no call of Records.create yet
NoCall == [made |-> FALSE, values |-> <<>>, before |-> <<>>, raised |-> FALSE]

\* the variables of the parts a specification leaves out stay as they are here
NormIdle == text = <<>> /\ normalized = <<>> /\ tokens = <<>> /\ npc = "idle"

ApiIdle == api_call = NoCall /\ api_calls = 0

FetchIdle ==
    /\ max_size = 0 /\ thread_count = 0 /\ queue = <<>> /\ unfinished_tasks = 0
    /\ results = <<>> /\ workers = <<>> /\ job_log = <<>> /\ mpc = "idle"
    /\ classify_calls = 0

-----------------------------------------------------------------------------
(* Classify, then save: the run of __main__ after the fetch *)

Init ==
    /\ ApiIdle /\ FetchIdle
    /\ text = <<>> /\ normalized = <<>> /\ tokens = <<>> /\ npc = "idle"
    /\ cat_topics_model \in TopicModels
    /\ facts \in Batches
    /\ idx = 0
    /\ tree_dicts = <<>>
    /\ pc = "classify"
    /\ table \in {NoTable, OldTable}
    /\ conn = table

\* lines 229-328: one iteration of "for fact in facts"; an exception leaves the call
ClassifyFact ==
    /\ pc = "classify"
    /\ idx < Len(facts)
    /\ LET st == ScanFact(facts[idx + 1], cat_topics_model)
       IN  IF st.raised
           THEN pc' = "raised" /\ UNCHANGED <<idx, tree_dicts>>
           ELSE /\ tree_dicts' = FileFact(tree_dicts, st)
                /\ idx' = idx + 1
                /\ pc' = pc
    /\ UNCHANGED <<cat_topics_model, facts, table, conn>>
    /\ UNCHANGED normVars
    /\ UNCHANGED <<apiVars, fetchVars>>

\* line 338: return tree_dicts
Return ==
    /\ pc = "classify"
    /\ idx = Len(facts)
    /\ pc' = "returned"
    /\ UNCHANGED <<cat_topics_model, facts, idx, tree_dicts, table, conn>>
    /\ UNCHANGED normVars
    /\ UNCHANGED <<apiVars, fetchVars>>

\* lines 407-462, called on the returned tree (line 522).  The rows reach the table at
\* the commit of line 460; an exception in the loop leaves them uncommitted.
save_to_db_clean ==
    /\ pc = "returned"
    /\ LET acc == SaveLoop(tree_dicts)
       IN  /\ tree_dicts' = acc.data
           /\ conn' = [EmptyTable EXCEPT !.rows = acc.rows]
           /\ IF acc.raised
              THEN pc' = "save_raised" /\ table' = table
              ELSE pc' = "saved" /\ table' = conn'
    /\ UNCHANGED <<cat_topics_model, facts, idx>>
    /\ UNCHANGED normVars
    /\ UNCHANGED <<apiVars, fetchVars>>

Next == ClassifyFact \/ Return \/ save_to_db_clean

Spec == Init /\ [][Next]_vars

-----------------------------------------------------------------------------
(* The normalizer on its own *)

\* the longest raw string
MaxStrLen == 3

\* a letter of each case, the separators, a curly quote and a parenthesis
NormAlphabet == {"a", "B", " ", "-", RightSingleQuote, "("}

RawStrings == UNION {[1..n -> NormAlphabet] : n \in 0..MaxStrLen}

InitNorm ==
    /\ text \in RawStrings
    /\ normalized = <<>>
    /\ tokens = <<>>
    /\ npc = "start"
    /\ ApiIdle /\ FetchIdle
    /\ cat_topics_model = <<>> /\ facts = <<>> /\ idx = 0 /\ tree_dicts = <<>>
    /\ pc = "idle" /\ table = NoTable /\ conn = NoTable

\* normalize_text(text)
Normalize ==
    /\ npc = "start"
    /\ normalized' = <<normalize_text(text)>>
    /\ npc' = "normalized"
    /\ UNCHANGED <<text, tokens>>
    /\ UNCHANGED treeVars
    /\ UNCHANGED <<apiVars, fetchVars>>

\* normalize_text of the string normalize_text returned
NormalizeAgain ==
    /\ npc = "normalized"
    /\ normalized' = Append(normalized, normalize_text(normalized[1]))
    /\ npc' = "renormalized"
    /\ UNCHANGED <<text, tokens>>
    /\ UNCHANGED treeVars
    /\ UNCHANGED <<apiVars, fetchVars>>

\* lines 230-231 on text
TokenizeFact ==
    /\ npc = "renormalized"
    /\ tokens' = Tokenize(text)
    /\ npc' = "tokenized"
    /\ UNCHANGED <<text, normalized>>
    /\ UNCHANGED treeVars
    /\ UNCHANGED <<apiVars, fetchVars>>

NextNorm == Normalize \/ NormalizeAgain \/ TokenizeFact

SpecNorm == InitNorm /\ [][NextNorm]_vars

-----------------------------------------------------------------------------
(* determine_facts_hierarchy as one call *)

RECURSIVE ClassifyFrom(_, _, _, _)
\* lines 229-328: "for fact in facts", from the k-th fact on
ClassifyFrom(acc, fs, k, model) ==
    IF k > Len(fs) \/ acc.raised THEN acc
    ELSE LET st == ScanFact(fs[k], model)
         IN  ClassifyFrom(IF st.raised THEN [acc EXCEPT !.raised = TRUE]
                                       ELSE [acc EXCEPT !.tree = FileFact(@, st)],
                          fs, k + 1, model)

\* lines 222-338: the tree returned, or raised
determine_facts_hierarchy(fs, model) ==
    ClassifyFrom([tree |-> <<>>, raised |-> FALSE], fs, 1, model)

-----------------------------------------------------------------------------
(* Cat_Facts_Tree_Records.create, called by write_new_cat_fact *)

\* line 472-475: fetchone() after "SELECT * ... ORDER BY ID DESC LIMIT 1": whether there
\* is a row, and a row of the greatest ID
HasLastRow(tbl) == tbl.rows # <<>>

LastRow(tbl) == CHOOSE r \in Range(tbl.rows) : \A q \in Range(tbl.rows) : q.ID <= r.ID

\* the keys of a row of a RealDictCursor (line 473): the column names
RealDictRowKeys(row) == DOMAIN row

\* the key of row[0] (line 476), written as a string beside the column names
PositionKey == "0"

\* lines 479-486: the parents of one record; "eeach" (line 484) is no name
CreateParents(each) ==
    IF "parents" \in DOMAIN each
    THEN IF each.parents = None
         THEN [raised |-> FALSE, parents |-> NoneLiteral]
         ELSE [raised |-> TRUE, parents |-> Join(each.parents.list)]          \* NameError
    ELSE [raised |-> FALSE, parents |-> NoneLiteral]

RECURSIVE CreateLoop(_, _, _, _)
\* lines 478-489: "for each in values", from the j-th record on; index is never raised
CreateLoop(acc, values, j, index) ==
    IF j > Len(values) \/ acc.raised THEN acc
    ELSE LET p == CreateParents(values[j])
         IN  CreateLoop(IF p.raised
                        THEN [acc EXCEPT !.raised = TRUE]
                        ELSE [acc EXCEPT !.rows = Append(@, Row(index, values[j], p.parents))],
                        values, j + 1, index)

\* lines 464-492: the rows the connection holds after the call, whether they were
\* committed (line 490), and whether an exception left the call
Create(tbl, values) ==
    IF ~tbl.exists
    THEN [rows |-> tbl.rows, committed |-> FALSE, raised |-> TRUE]   \* line 474: no such table
    ELSE IF ~HasLastRow(tbl)
    THEN [rows |-> tbl.rows, committed |-> FALSE, raised |-> TRUE]   \* line 476: None[0]
    ELSE IF PositionKey \notin RealDictRowKeys(LastRow(tbl))
    THEN [rows |-> tbl.rows, committed |-> FALSE, raised |-> TRUE]   \* line 476: KeyError: 0
    ELSE LET acc == CreateLoop([rows |-> tbl.rows, raised |-> FALSE], values, 1,
                               LastRow(tbl).ID + 1)
         IN  [rows |-> acc.rows, committed |-> ~acc.raised, raised |-> acc.raised]

\* line 525: "Cats are amazing!"
AmazingFact ==
    <<"C","a","t","s"," ","a","r","e"," ","a","m","a","z","i","n","g","!">>

\* the example record of line 525
AmazingRecord == [depth |-> 1, topic |-> weighted_topic_vals[1].name, fact |-> AmazingFact]

\* the record with a parents list, and with parents given as null
AmazingRecordWithParents ==
    [depth |-> 1, topic |-> weighted_topic_vals[1].name,
     parents |-> ListOf({weighted_topic_vals[1].name \o RootSuffix}), fact |-> AmazingFact]

AmazingRecordNullParents ==
    [depth |-> 1, topic |-> weighted_topic_vals[1].name, parents |-> None, fact |-> AmazingFact]

\* the bodies posted as "new_cat_facts"
ApiValues ==
    {<<>>, <<AmazingRecord>>, <<AmazingRecord, AmazingRecord>>, <<AmazingRecordWithParents>>,
     <<AmazingRecord, AmazingRecordNullParents>>}

\* the batches whose trees a run of __main__ writes meanwhile
ApiBatches ==
    {<<>>, <<FurFact>>, <<FurFact, FurFact>>, <<CatSatFact, CatSatFact>>,
     <<CatSatFact, CatHasFurFact>>}

\* the most calls against the table
MaxApiCalls == 3

InitApi ==
    /\ NormIdle /\ FetchIdle /\ ApiIdle
    /\ cat_topics_model = <<>> /\ facts = <<>> /\ idx = 0 /\ tree_dicts = <<>> /\ pc = "idle"
    /\ table \in {NoTable, OldTable}
    /\ conn = table

\* cat_facts_tree_api.py lines 31-41: cftr.create(vals) for a posted body
write_new_cat_fact ==
    /\ api_calls < MaxApiCalls
    /\ \E values \in ApiValues :
           LET out == Create(table, values)
           IN  /\ conn' = [table EXCEPT !.rows = out.rows]
               /\ table' = IF out.committed THEN conn' ELSE table
               /\ api_call' = [made |-> TRUE, values |-> values, before |-> table.rows,
                               raised |-> out.raised]
    /\ api_calls' = api_calls + 1
    /\ UNCHANGED <<cat_topics_model, facts, idx, tree_dicts, pc>>
    /\ UNCHANGED <<normVars, fetchVars>>

\* lines 518-522 run by another process: a clean write of a classified batch
clean_write ==
    /\ api_calls < MaxApiCalls
    /\ \E batch \in ApiBatches :
           LET acc == SaveLoop(determine_facts_hierarchy(batch, weighted_topic_vals).tree)
           IN  table' = IF acc.raised THEN table ELSE [EmptyTable EXCEPT !.rows = acc.rows]
    /\ conn' = table'
    /\ api_calls' = api_calls + 1
    /\ UNCHANGED <<cat_topics_model, facts, idx, tree_dicts, pc, api_call>>
    /\ UNCHANGED <<normVars, fetchVars>>

NextApi == write_new_cat_fact \/ clean_write

SpecApi == InitApi /\ [][NextApi]_vars

-----------------------------------------------------------------------------
(* Cat_Facts_Tree.make_cat_facts_tree and its workers in fetch_from_queue *)

API_ENDPOINT == "https://catfact.ninja/facts?limit=1000"

\* What a request may bring: urlopen raises; the body is not JSON; a document with the
\* facts under "data"; a document with an item that has no "fact".
Unreachable == [opens |-> FALSE]

NotJson == [opens |-> TRUE, json |-> FALSE]

OneFact == [opens |-> TRUE, json |-> TRUE, doc |-> [data |-> <<[fact |-> FurFact]>>]]

TwoFacts ==
    [opens |-> TRUE, json |-> TRUE,
     doc |-> [data |-> <<[fact |-> CatSatFact], [fact |-> BigCatsFact]>>]]

BrokenItem ==
    [opens |-> TRUE, json |-> TRUE,
     doc |-> [data |-> <<[fact |-> PeopleFact], [length |-> 17]>>]]

Responses == {Unreachable, NotJson, OneFact, TwoFacts, BrokenItem}

\* the most fetch jobs and the most worker threads
MaxJobs == 2

MaxWorkers == 2

\* a thread that make_cat_facts_tree has not started yet
Unstarted == [pc |-> "unstarted", data |-> <<>>, pos |-> 0, failed |-> FALSE, appended |-> <<>>]

\* lines 377-378 and 359-363: before make_queue has put anything
InitFetch ==
    /\ NormIdle /\ ApiIdle
    /\ cat_topics_model = <<>> /\ facts = <<>> /\ idx = 0 /\ tree_dicts = <<>> /\ pc = "idle"
    /\ table = NoTable /\ conn = NoTable
    /\ max_size \in 0..MaxJobs
    /\ thread_count \in 1..MaxWorkers
    /\ queue = <<>>
    /\ unfinished_tasks = 0
    /\ results = <<>>
    /\ workers = [w \in 1..thread_count |-> Unstarted]
    /\ job_log = <<>>
    /\ mpc = "make_queue"
    /\ classify_calls = 0

idleInFetch == <<normVars, apiVars, cat_topics_model, idx, pc, table, conn, max_size, thread_count>>

\* lines 359-370: max_size puts into a queue of that size; none of them blocks
make_queue ==
    /\ mpc = "make_queue"
    /\ queue' = [i \in 1..max_size |-> API_ENDPOINT]
    /\ unfinished_tasks' = max_size
    /\ mpc' = "start"
    /\ UNCHANGED <<results, workers, job_log, classify_calls, facts, tree_dicts>>
    /\ UNCHANGED idleInFetch

\* lines 380-387: the next worker.start()
StartWorker ==
    /\ mpc = "start"
    /\ \E w \in 1..thread_count :
           /\ workers[w].pc = "unstarted"
           /\ \A v \in 1..(w - 1) : workers[v].pc # "unstarted"
           /\ workers' = [workers EXCEPT ![w].pc = "check"]
    /\ UNCHANGED <<queue, unfinished_tasks, results, job_log, mpc, classify_calls, facts, tree_dicts>>
    /\ UNCHANGED idleInFetch

\* a join that does not wait
JoinReadyNoWait == TRUE

\* Queue.join: returns once every task put has been marked done
JoinReady == unfinished_tasks = 0

\* line 388: facts_queue.join(), after the last worker.start()
JoinQueue ==
    /\ mpc = "start"
    /\ \A w \in 1..thread_count : workers[w].pc # "unstarted"
    /\ JoinReady
    /\ mpc' = "classify"
    /\ UNCHANGED <<queue, unfinished_tasks, results, workers, job_log, classify_calls, facts,
                   tree_dicts>>
    /\ UNCHANGED idleInFetch

\* lines 389-392: determine_facts_hierarchy(results, weighted_topic_vals), and the return
ClassifyResults ==
    /\ mpc = "classify"
    /\ facts' = results
    /\ tree_dicts' = determine_facts_hierarchy(results, weighted_topic_vals).tree
    /\ classify_calls' = classify_calls + 1
    /\ mpc' = "returned"
    /\ UNCHANGED <<queue, unfinished_tasks, results, workers, job_log>>
    /\ UNCHANGED idleInFetch

\* line 344: while not queue.empty()
WorkerCheck(w) ==
    /\ workers[w].pc = "check"
    /\ workers' = [workers EXCEPT ![w].pc = IF queue = <<>> THEN "returned" ELSE "get"]
    /\ UNCHANGED <<queue, unfinished_tasks, results, job_log, mpc, classify_calls, facts, tree_dicts>>
    /\ UNCHANGED idleInFetch

\* line 345: task = queue.get(), which waits while the queue is empty
WorkerGet(w) ==
    /\ workers[w].pc = "get"
    /\ queue # <<>>
    /\ queue' = Tail(queue)
    /\ workers' = [workers EXCEPT ![w] = [Unstarted EXCEPT !.pc = "open"]]
    /\ UNCHANGED <<unfinished_tasks, results, job_log, mpc, classify_calls, facts, tree_dicts>>
    /\ UNCHANGED idleInFetch

\* whether lines 349 and 352 reach the first item: urlopen, json.loads and data['data']
ReachesItems(resp) ==
    resp.opens /\ resp.json /\ "data" \in DOMAIN resp.doc

\* lines 349-352: the request and the parse; an exception goes to the except of line 354
WorkerOpen(w) ==
    /\ workers[w].pc = "open"
    /\ \E resp \in Responses :
           workers' = [workers EXCEPT ![w] =
                          IF ReachesItems(resp)
                          THEN [@ EXCEPT !.pc = "append", !.data = resp.doc.data, !.pos = 1]
                          ELSE [@ EXCEPT !.pc = "task_done", !.failed = TRUE]]
    /\ UNCHANGED <<queue, unfinished_tasks, results, job_log, mpc, classify_calls, facts, tree_dicts>>
    /\ UNCHANGED idleInFetch

\* lines 352-355: one turn of "for item in data['data']": the append of item['fact'], the
\* KeyError of an item without it, or the end of the loop
WorkerAppend(w) ==
    /\ workers[w].pc = "append"
    /\ LET me == workers[w]
       IN  IF me.pos > Len(me.data)
           THEN /\ workers' = [workers EXCEPT ![w].pc = "task_done"]
                /\ results' = results
           ELSE IF "fact" \notin DOMAIN me.data[me.pos]
           THEN /\ workers' = [workers EXCEPT ![w].pc = "task_done", ![w].failed = TRUE]
                /\ results' = results
           ELSE /\ workers' = [workers EXCEPT ![w].pos = @ + 1,
                                             ![w].appended = Append(@, me.data[me.pos].fact)]
                /\ results' = Append(results, me.data[me.pos].fact)
    /\ UNCHANGED <<queue, unfinished_tasks, job_log, mpc, classify_calls, facts, tree_dicts>>
    /\ UNCHANGED idleInFetch

\* line 356: queue.task_done()
WorkerTaskDone(w) ==
    /\ workers[w].pc = "task_done"
    /\ unfinished_tasks' = unfinished_tasks - 1
    /\ job_log' = Append(job_log, [failed |-> workers[w].failed, data |-> workers[w].data,
                                   appended |-> workers[w].appended])
    /\ workers' = [workers EXCEPT ![w].pc = "check"]
    /\ UNCHANGED <<queue, results, mpc, classify_calls, facts, tree_dicts>>
    /\ UNCHANGED idleInFetch

\* lines 340-357: a step of a worker thread
fetch_from_queue ==
    \E w \in 1..thread_count :
        \/ WorkerCheck(w)
        \/ WorkerGet(w)
        \/ WorkerOpen(w)
        \/ WorkerAppend(w)
        \/ WorkerTaskDone(w)

NextFetch == make_queue \/ StartWorker \/ JoinQueue \/ ClassifyResults \/ fetch_from_queue

SpecFetch == InitFetch /\ [][NextFetch]_vars

-----------------------------------------------------------------------------
(* Properties of the classifier *)

\* the classified facts of a tree: the elements of its lists
ClassifiedFacts(tree) ==
    UNION {Range(tree[i].node) : i \in {k \in 1..Len(tree) : tree[k].type = "list"}}

\* the classified facts a tree holds for one fact text
ResultsFor(tree, fact) == {r \in ClassifiedFacts(tree) : r.fact = fact}

\* the topics whose own name is a token of the fact
AnchorTopics(fact, model) ==
    {t \in Range(model) : t.name \in Range(Tokenize(fact))}

\* the topics whose keyword list holds a token of the fact
KeywordTopics(fact, model) ==
    {t \in Range(model) : "matches" \in DOMAIN t.vals
                          /\ Range(t.vals.matches) \cap Range(Tokenize(fact)) # {}}

\* C1: a fact with a token equal to a topic's name is classified with parents exactly
\* [name + "_root"] and the depth of that topic's weight, whatever keywords its other
\* tokens match.
C1_AnchorAlwaysWins ==
    pc = "returned" =>
        \A i \in 1..Len(facts) :
            AnchorTopics(facts[i], cat_topics_model) # {} =>
                /\ ResultsFor(tree_dicts, facts[i]) # {}
                /\ \A r \in ResultsFor(tree_dicts, facts[i]) :
                       \E t \in AnchorTopics(facts[i], cat_topics_model) :
                           /\ "weight" \in DOMAIN t.vals
                           /\ r.depth = t.vals.weight
                           /\ r.parents = ListOf({t.name \o RootSuffix})

\* C2: a fact with no anchor token and at least one keyword token is assigned a topic of
\* the smallest weight among the topics whose keyword lists hold one of its tokens.
C2_SmallestWeightWins ==
    pc = "returned" =>
        \A i \in 1..Len(facts) :
            (AnchorTopics(facts[i], cat_topics_model) = {}
             /\ KeywordTopics(facts[i], cat_topics_model) # {}) =>
                /\ ResultsFor(tree_dicts, facts[i]) # {}
                /\ \A r \in ResultsFor(tree_dicts, facts[i]) :
                       \A t \in KeywordTopics(facts[i], cat_topics_model) :
                           "weight" \in DOMAIN t.vals => r.depth <= t.vals.weight

\* the topics a tree can speak of
TopicsOf(tree, model) ==
    {t.name : t \in Range(model)}
        \cup {tree[i].node.topic : i \in {k \in 1..Len(tree) : tree[k].type = "dict"}}

\* a tree holds the root entry of topic T
HasRootEntry(tree, T) ==
    \E i \in 1..Len(tree) : tree[i].key = T \o RootSuffix

\* C3: the returned tree has a root entry keyed T + "_root" (a dict of depth 0, parents
\* None, fact None) if and only if it holds a classified fact of topic T and depth 1.
C3_RootIffDepthOne ==
    pc = "returned" =>
        \A T \in TopicsOf(tree_dicts, cat_topics_model) :
            /\ HasRootEntry(tree_dicts, T)
                   <=> (\E r \in ClassifiedFacts(tree_dicts) : r.topic = T /\ r.depth = 1)
            /\ HasRootEntry(tree_dicts, T) =>
                   /\ DictGet(tree_dicts, T \o RootSuffix).type = "dict"
                   /\ DictGet(tree_dicts, T \o RootSuffix).node
                          = [topic |-> T, depth |-> 0, parents |-> None, fact |-> None]

\* C3's case: a returned tree with a root entry, and with a topic that has none
C3_Witness ==
    /\ pc = "returned"
    /\ \E r \in ClassifiedFacts(tree_dicts) : HasRootEntry(tree_dicts, r.topic)
    /\ \E r \in ClassifiedFacts(tree_dicts) : ~HasRootEntry(tree_dicts, r.topic)

\* C4: every name in a classified fact's parents is a key of the same returned tree.
C4_ParentsAreKeys ==
    pc = "returned" =>
        \A r \in ClassifiedFacts(tree_dicts) : r.parents.list \subseteq DictKeys(tree_dicts)

\* no token of the fact is a topic's name or keyword
Unmatched(fact, model) ==
    AnchorTopics(fact, model) = {} /\ KeywordTopics(fact, model) = {}

\* C5: a fact with no token among the topic names and keywords gets no entry under any
\* key, and a batch of such facts alone (the empty batch too) returns the empty tree.
C5_UnmatchedDropped ==
    pc = "returned" =>
        /\ \A i \in 1..Len(facts) :
               Unmatched(facts[i], cat_topics_model) => ResultsFor(tree_dicts, facts[i]) = {}
        /\ (\A i \in 1..Len(facts) : Unmatched(facts[i], cat_topics_model))
               => tree_dicts = <<>>

\* C5's case: a returned batch with an unmatched fact beside a matched one
C5_Witness ==
    /\ pc = "returned"
    /\ \E i \in 1..Len(facts) : Unmatched(facts[i], cat_topics_model)
    /\ \E i \in 1..Len(facts) : ~Unmatched(facts[i], cat_topics_model)

\* C5's second case: a returned non-empty batch of unmatched facts alone
C5_WitnessAllUnmatched ==
    /\ pc = "returned"
    /\ Len(facts) > 0
    /\ \A i \in 1..Len(facts) : Unmatched(facts[i], cat_topics_model)

-----------------------------------------------------------------------------
(* Properties of the normalizer *)

\* C6: normalize_text is idempotent: normalizing a normalized string returns it.
C6_NormalizeIdempotent ==
    npc \in {"renormalized", "tokenized"} => normalized[2] = normalized[1]

Letters == Range(UpperCase) \cup Range(LowerCase)

\* the lower-cased run of letters of s that ends at position i
RECURSIVE WordEndingAt(_, _)
WordEndingAt(s, i) ==
    IF i >= 1 /\ s[i] \in Letters
    THEN Append(WordEndingAt(s, i - 1), LowerChar(s[i]))
    ELSE <<>>

\* the lower-cased run of letters of s that starts at position i
RECURSIVE WordStartingAt(_, _)
WordStartingAt(s, i) ==
    IF i <= Len(s) /\ s[i] \in Letters
    THEN <<LowerChar(s[i])>> \o WordStartingAt(s, i + 1)
    ELSE <<>>

\* the positions of the hyphens of s that stand between two letters
WordHyphens(s) ==
    {i \in 2..(Len(s) - 1) : s[i] = "-" /\ s[i - 1] \in Letters /\ s[i + 1] \in Letters}

\* C7: the tokens scanned for a fact with a hyphenated word "a-b" hold "a" and "b" as
\* two tokens, not the joined token "ab".
C7_HyphenSeparates ==
    npc = "tokenized" =>
        \A i \in WordHyphens(text) :
            /\ WordEndingAt(text, i - 1) \in Range(tokens)
            /\ WordStartingAt(text, i + 1) \in Range(tokens)
            /\ WordEndingAt(text, i - 1) \o WordStartingAt(text, i + 1) \notin Range(tokens)

-----------------------------------------------------------------------------
(* Properties of a classification run and of the clean write *)

CatName == <<"c","a","t">>

AppearanceName == <<"a","p","p","e","a","r","a","n","c","e">>

\* the run that classifies the one fact "My cat's fur is the softest I've ever felt."
\* against the built-in topic model has returned
SoftestFurClassified ==
    /\ pc = "returned"
    /\ cat_topics_model = weighted_topic_vals
    /\ facts = <<SoftestFurFact>>

\* C8, as stated: the fact is classified once, with topic appearance, depth 2 and
\* parents {cat_root, cat}; no other topic is matched.
C8_SoftestFurIsAppearance ==
    SoftestFurClassified =>
        /\ ClassifiedFacts(tree_dicts)
               = {[topic   |-> AppearanceName,
                   depth   |-> 2,
                   parents |-> ListOf({CatName \o RootSuffix, CatName}),
                   fact    |-> SoftestFurFact]}
        /\ DictKeys(tree_dicts) = {AppearanceName}

\* C8, amended: the fact is classified once, with topic cat, depth 1 and parents
\* {cat_root}, through the keyword "cats" that "cat's" normalizes to, and the tree has
\* the root entry cat_root beside it; no anchor is matched.
C8_SoftestFurIsCat ==
    SoftestFurClassified =>
        /\ ClassifiedFacts(tree_dicts)
               = {[topic   |-> CatName,
                   depth   |-> 1,
                   parents |-> ListOf({CatName \o RootSuffix}),
                   fact    |-> SoftestFurFact]}
        /\ DictKeys(tree_dicts) = {CatName \o RootSuffix, CatName}
        /\ AnchorTopics(SoftestFurFact, weighted_topic_vals) = {}
        /\ <<"c","a","t","s">> \in Range(Tokenize(SoftestFurFact))

\* C8's case
C8_Witness == SoftestFurClassified /\ tree_dicts # <<>>

\* every topic that matches the fact (by name or by keyword) registers no weight, and
\* some topic matches it
OnlyUnweightedMatches(fact, model) ==
    /\ ~Unmatched(fact, model)
    /\ \A t \in AnchorTopics(fact, model) \cup KeywordTopics(fact, model) :
           "weight" \notin DOMAIN t.vals

\* C9: no error leaves a classification run, and a fact whose only matching topics have
\* no registered weight is classified with depth 0.
C9_UnweightedIsDepthZero ==
    /\ pc # "raised"
    /\ pc = "returned" =>
           \A i \in 1..Len(facts) :
               OnlyUnweightedMatches(facts[i], cat_topics_model) =>
                   /\ ResultsFor(tree_dicts, facts[i]) # {}
                   /\ \A r \in ResultsFor(tree_dicts, facts[i]) : r.depth = 0

\* the nodes of a tree: one per root entry, one per classified fact
RECURSIVE NodeCount(_)
NodeCount(tree) ==
    IF tree = <<>> THEN 0
    ELSE (IF Head(tree).type = "list" THEN Len(Head(tree).node) ELSE 1) + NodeCount(Tail(tree))

\* C10: save_to_db_clean completes on every returned tree and leaves in the table none of
\* the previous records and one record per node, with the ids 0, 1, ..., n-1 in order.
C10_CleanWriteStoresEveryNode ==
    /\ pc # "save_raised"
    /\ pc = "saved" =>
           /\ table.exists
           /\ Len(table.rows) = NodeCount(tree_dicts)
           /\ \A k \in 1..Len(table.rows) : table.rows[k].ID = k - 1
           /\ OldRecord \notin Range(table.rows)

-----------------------------------------------------------------------------
(* Properties of the incremental create *)

\* the greatest id among rows, -1 when there is none
MaxId(rows) ==
    IF rows = <<>> THEN -1
    ELSE (CHOOSE r \in Range(rows) : \A q \in Range(rows) : q.ID <= r.ID).ID

UniqueIds(rows) ==
    \A i, j \in 1..Len(rows) : rows[i].ID = rows[j].ID => i = j

\* C11: a create of k records on a table whose greatest id is m leaves the previous rows
\* as they are and adds exactly k rows, with pairwise distinct ids all above m; so the ids
\* in the table are always unique.
C11_CreateAppendsAfterMaxId ==
    /\ UniqueIds(table.rows)
    /\ (api_call.made /\ api_call.before # <<>>) =>
           LET k == Len(api_call.values)
               n == Len(api_call.before)
           IN  /\ Len(table.rows) = n + k
               /\ SubSeq(table.rows, 1, n) = api_call.before
               /\ UniqueIds(table.rows)
               /\ \A i \in (n + 1)..(n + k) : table.rows[i].ID > MaxId(api_call.before)

-----------------------------------------------------------------------------
(* Properties of make_cat_facts_tree and fetch_from_queue *)

\* The threads keep running: a thread that can take its next step takes it in the end.
\* A step of mpc from "classify" to "returned" is ClassifyResults, lines 389-392.
SpecFetchFair ==
    /\ SpecFetch
    /\ WF_vars(make_queue \/ StartWorker \/ JoinQueue \/ fetch_from_queue)
    /\ WF_mpc(mpc = "classify" /\ mpc' = "returned")

\* the facts a response document holds
RECURSIVE FactsOf(_)
FactsOf(data) ==
    IF data = <<>> THEN <<>>
    ELSE IF "fact" \in DOMAIN Head(data) THEN <<Head(data).fact>> \o FactsOf(Tail(data))
    ELSE FactsOf(Tail(data))

\* how many facts the jobs of a log that did not fail held
RECURSIVE FactsOfGoodJobs(_)
FactsOfGoodJobs(log) ==
    IF log = <<>> THEN 0
    ELSE (IF Head(log).failed THEN 0 ELSE Len(FactsOf(Head(log).data)))
         + FactsOfGoodJobs(Tail(log))

\* how many facts the jobs of a log appended
RECURSIVE AppendedBy(_)
AppendedBy(log) ==
    IF log = <<>> THEN 0 ELSE Len(Head(log).appended) + AppendedBy(Tail(log))

AllJobsDone == mpc # "make_queue" /\ unfinished_tasks = 0

\* C12: a job that failed has put no fact into results; every fact of a job that did not
\* fail is in results; failed jobs are marked done as well, so that once every job is done
\* results holds the facts of the jobs that did not fail and nothing else.
C12_FailedJobAddsNothing ==
    /\ \A i \in DOMAIN job_log :
           /\ job_log[i].failed => job_log[i].appended = <<>>
           /\ ~job_log[i].failed =>
                  \A f \in Range(FactsOf(job_log[i].data)) : f \in Range(results)
    /\ AllJobsDone =>
           /\ Len(job_log) = max_size
           /\ Len(results) = FactsOfGoodJobs(job_log)

\* a worker in the middle of a job
Busy(w) == workers[w].pc \in {"open", "append", "task_done"}

ClassifiedAfterAllJobs ==
    /\ classify_calls \in {0, 1}
    /\ mpc = "returned" <=> classify_calls = 1
    /\ classify_calls = 1 =>
           /\ queue = <<>>
           /\ unfinished_tasks = 0
           /\ Len(job_log) = max_size
           /\ \A w \in 1..thread_count : ~Busy(w)
           /\ facts = results
           /\ Len(results) = AppendedBy(job_log)

\* C13: determine_facts_hierarchy is called once, in every run in which the threads keep
\* running; when it is called every job has been taken and marked done, and what it is
\* given is results with every fact that every job appended.
C13_ClassifiedOnceAfterAllJobs ==
    /\ []ClassifiedAfterAllJobs
    /\ [][classify_calls' # classify_calls => facts' = results /\ JoinReady /\ queue = <<>>]_vars
    /\ <>(classify_calls = 1)

C13_Witness ==
    /\ classify_calls = 1
    /\ max_size >= 2 /\ thread_count >= 2
    /\ Len(results) >= 2
    /\ \E i \in DOMAIN job_log : job_log[i].failed
    /\ \E i \in DOMAIN job_log : ~job_log[i].failed

\* C15: no worker waits in queue.get() on a queue that is empty once make_queue has filled
\* it: nothing is put after that, so such a worker never returns.
C15_NoWorkerBlockedInGet ==
    \A w \in 1..thread_count :
        ~(mpc # "make_queue" /\ workers[w].pc = "get" /\ queue = <<>>)

-----------------------------------------------------------------------------
(* The token and the topic that decide a fact's classification *)

\* a token is the topic's name or is in the topic's keyword list
MatchesToken(t, token) ==
    \/ t.name = token
    \/ "matches" \in DOMAIN t.vals /\ token \in Range(t.vals.matches)

\* the places of the tokens that some topic matches
MatchingTokens(toks, model) ==
    {j \in 1..Len(toks) : \E k \in 1..Len(model) : MatchesToken(model[k], toks[j])}

Least(S) == CHOOSE j \in S : \A i \in S : j <= i

Greatest(S) == CHOOSE j \in S : \A i \in S : i <= j

\* the last topic, in the order of the registry, that matches the token
LastMatchingTopic(token, model) ==
    model[Greatest({k \in 1..Len(model) : MatchesToken(model[k], token)})]

\* what a topic gives a fact it matches by the token: by name, or by keyword
ResultOfTopic(t, token, fact) ==
    IF t.name = token
    THEN [topic |-> t.name, depth |-> t.vals.weight,
          parents |-> ListOf({t.name \o RootSuffix}), fact |-> fact]
    ELSE [topic |-> t.name, depth |-> KeywordDepth(t), parents |-> KeywordParents(t),
          fact |-> fact]

\* C14: the result of a fact is the one given by the last topic of the registry that
\* matches the fact's first token matched by any topic, whatever the later tokens are.
C14_FirstTokenLastTopicDecides ==
    pc = "returned" =>
        \A i \in 1..Len(facts) :
            LET toks == Tokenize(facts[i])
                hits == MatchingTokens(toks, cat_topics_model)
            IN  hits # {} =>
                    LET token == toks[Least(hits)]
                        t     == LastMatchingTopic(token, cat_topics_model)
                    IN  ResultsFor(tree_dicts, facts[i]) = {ResultOfTopic(t, token, facts[i])}

====
